---- MODULE Spec2Model ----
(***************************************************************************)
(* Model of rag_guard: the entity extractors (RegexNER, LLMNER,           *)
(* HybridNER), the token generator, the construction of a DataMasker,     *)
(* DataMasker.add_pattern / mask / unmask, two threads sharing one        *)
(* DataMasker, and RAGGuard.postprocess.                                  *)
(*                                                                         *)
(* A string is a sequence of one-character strings.  Offsets are the      *)
(* 0-based offsets of the Python code; Slice(s, a, b) is s[a:b].          *)
(* Confidences are counted in tenths (0.7 is 7).                          *)
(***************************************************************************)
EXTENDS Integers, Sequences, FiniteSets, TLC

VARIABLES
    ner_strategy,   \* DataMasker.ner_strategy
    patterns,       \* RegexNER.patterns, in dict order: <<[label, cls]>>
    last_entities,  \* DataMasker.last_entities
    pc,             \* position of the current DataMasker call
    text,           \* mask(): the argument text
    reply,          \* what the completion function does when it is called
    entities,       \* mask(): the local list entities (sorted in place)
    idx,            \* mask(): position of the for loop in entities
    mapping,        \* mask(): the local dict mapping, in insertion order
    masked_text,    \* mask(): the local string masked_text
    spliced,        \* tokens spliced so far by the loop, in loop order
    restored,       \* result of unmask / postprocess
    ncalls,         \* number of mask calls started on this instance
    first,          \* the first completed mask call: input and output
    u_text,         \* unmask / postprocess argument text
    u_mapping,      \* unmask / postprocess argument mapping
    u_partial,      \* postprocess argument partial_unmask
    cands,          \* _merge_entities argument
    merged,         \* _merge_entities result
    l_text,         \* LLMNER.extract_entities argument
    l_reply,        \* completion function behaviour for that call
    l_out,          \* LLMNER.extract_entities outcome
    salt,           \* constructor argument salt
    custom_patterns,\* constructor argument custom_patterns
    llm_caller,     \* whether a completion function was supplied
    llm_confidence_threshold,  \* GuardConfig.llm_confidence_threshold
    llm_calls,      \* invocations of the completion function so far
    raised,         \* exception type the constructor raised, "none" if
                    \* it returned
    last_add,       \* the last add_pattern call: its pattern and outcome
    t_pc,           \* per thread: position in its mask call
    t_text,         \* per thread: the argument text of its mask call
    t_entities,     \* per thread: the list object its extraction returned
    t_seen,         \* per thread: what get_last_entities returned to it
    slot_owner      \* the thread whose list object self.last_entities
                    \* refers to, 0 for the list of the constructor

vars == <<ner_strategy, patterns, last_entities, pc, text, reply, entities,
          idx, mapping, masked_text, spliced, restored, ncalls, first,
          u_text, u_mapping, u_partial, cands, merged, l_text, l_reply, l_out,
          salt, custom_patterns, llm_caller, llm_confidence_threshold,
          llm_calls, raised, last_add,
          t_pc, t_text, t_entities, t_seen, slot_owner>>

maskVars == <<ner_strategy, patterns, last_entities, pc, text, reply,
              entities, idx, mapping, masked_text, spliced, restored,
              ncalls, first>>
restoreVars == <<u_text, u_mapping, u_partial>>
mergeVars == <<cands, merged>>
llmVars == <<l_text, l_reply, l_out>>
configVars == <<salt, custom_patterns, llm_caller, llm_confidence_threshold>>
threadVars == <<t_pc, t_text, t_entities, t_seen, slot_owner>>

---------------------------------------------------------------------------
(* Bounds of the model *)

MaxPieces == 3      \* pieces a text given to mask is made of
MaxItems == 1       \* candidate items in one completion reply
MaxCalls == 3       \* mask calls on one instance
HashRange == 2      \* distinct values of the modelled digest
MaxCands == 3       \* candidates given to _merge_entities
MaxPos == 3         \* largest end offset of a merge candidate
MaxEntries == 2     \* entries of a mapping given to unmask
MaxUPieces == 2     \* pieces a text given to unmask is made of
MaxExtra == 2       \* characters of l_text beyond max_text_length

---------------------------------------------------------------------------
(* Strings *)

Min(a, b) == IF a < b THEN a ELSE b

\* Python s[a:b] for non-negative a, b (out-of-range offsets are clamped)
Slice(s, a, b) == SubSeq(s, Min(a, Len(s)) + 1, Min(b, Len(s)))

RECURSIVE Concat(_)
Concat(ss) == IF ss = <<>> THEN <<>> ELSE Head(ss) \o Concat(Tail(ss))

Range(f) == {f[i] : i \in DOMAIN f}

\* all sequences over S of length at most n
SeqsUpTo(S, n) == UNION {[1..k -> S] : k \in 0..n}

\* does pat occur in s at 0-based offset i
OccursAt(s, pat, i) == /\ i + Len(pat) <= Len(s)
                       /\ SubSeq(s, i + 1, i + Len(pat)) = pat

Contains(s, pat) == \E i \in 0..Len(s) : OccursAt(s, pat, i)

ASCII_LETTERS == {"a", "n", "s", "R", "G", "D", "W", "P"}
DIGITS == {"0", "1", "2", "3", "4", "5", "6", "7"}

\* value of a character in the digest input
CharCode(c) == CASE c = "1" -> 1
                 [] c = "n" -> 2
                 [] c = "\\" -> 4
                 [] c = "a" -> 3
                 [] c = "D" -> 5
                 [] c = "W" -> 7
                 [] c = "P" -> 6
                 [] c = "s" -> 8
                 [] OTHER -> 0

RECURSIVE SumCodes(_)
SumCodes(s) == IF s = <<>> THEN 0 ELSE CharCode(Head(s)) + SumCodes(Tail(s))

---------------------------------------------------------------------------
(* Entity *)

Entity(t, label, start, end, confidence) ==
    [text |-> t, label |-> label, start |-> start, end |-> end,
     confidence |-> confidence]

\* an overlap test that takes touching spans for overlapping
TouchingOverlap(entity1, entity2) ==
    ~(entity1.end < entity2.start \/ entity2.end < entity1.start)

\* HybridNER._is_overlap
_is_overlap(entity1, entity2) ==
    ~(entity1.end <= entity2.start \/ entity2.end <= entity1.start)

\* list.sort(key=start, reverse=True) / sorted(key=start): both stable
RECURSIVE InsertBy(_, _, _)
InsertBy(e, s, desc) ==
    IF s = <<>> THEN <<e>>
    ELSE IF (desc /\ Head(s).start >= e.start) \/
            (~desc /\ Head(s).start <= e.start)
         THEN <<Head(s)>> \o InsertBy(e, Tail(s), desc)
         ELSE <<e>> \o s

RECURSIVE SortBy(_, _)
SortBy(s, desc) ==
    IF s = <<>> THEN <<>>
    ELSE InsertBy(s[Len(s)], SortBy(SubSeq(s, 1, Len(s) - 1), desc), desc)

\* substitution order if the sort were ascending
SortLeftToRight(s) == SortBy(s, FALSE)

SortDescending(s) == SortBy(s, TRUE)
SortAscending(s) == SortBy(s, FALSE)

---------------------------------------------------------------------------
(* Token generator: DataMasker._short_hash and DataMasker._token *)

\* the salt of the instance (at least 8 characters, see _validate_salt)
Salt == <<"s", "0", "0", "0", "0", "0", "0", "0">>

\* characters of the lower-cased base32 alphabet used by the hash component
Base32 == <<"2", "3", "4", "5", "6", "7">>

\* The SHA-1 digest of salt + kind + value, base32-encoded and cut to a
\* fixed length.  The digest is modelled by a checksum with HashRange values;
\* like the 40 bits the code keeps, it is a function of (salt, kind, value)
\* with finitely many values, so distinct values can collide.
\* a hash component that also depends on how often the instance was used
CountingHash(kind, value) ==
    <<Base32[((SumCodes(Salt \o kind \o value) + ncalls) % HashRange) + 1]>>

_short_hash(kind, value) ==
    <<Base32[(SumCodes(Salt \o kind \o value) % HashRange) + 1]>>

TokenPrefix == <<"<", "R", "G", ":">>

_token(kind, value) ==
    TokenPrefix \o kind \o <<":">> \o _short_hash(kind, value) \o <<">">>

---------------------------------------------------------------------------
(* RegexNER.  A pattern is a character class cls standing for the regular *)
(* expression [cls]+ ; finditer is the leftmost, greedy, non-overlapping  *)
(* scan of re.finditer.                                                    *)

RECURSIVE RunEnd(_, _, _)
RunEnd(cls, t, pos) ==
    IF pos < Len(t) /\ t[pos + 1] \in cls THEN RunEnd(cls, t, pos + 1) ELSE pos

RECURSIVE finditer(_, _, _)
finditer(cls, t, pos) ==
    IF pos >= Len(t) THEN <<>>
    ELSE LET e == RunEnd(cls, t, pos) IN
         IF e > pos
         THEN <<[start |-> pos, end |-> e]>> \o finditer(cls, t, e)
         ELSE finditer(cls, t, pos + 1)

PatternEntities(p, t) ==
    LET ms == finditer(p.cls, t, 0) IN
    [i \in 1..Len(ms) |->
        Entity(Slice(t, ms[i].start, ms[i].end), p.label,
               ms[i].start, ms[i].end, 10)]

\* RegexNER.extract_entities: every match of every pattern, pattern by
\* pattern in dict order; nothing is removed
RegexNER_extract_entities(pats, t) ==
    Concat([i \in 1..Len(pats) |-> PatternEntities(pats[i], t)])

---------------------------------------------------------------------------
(* LLMNER *)

confidence_threshold == 7      \* LLMNER.__init__ default 0.7
default_confidence == 5        \* item.get('confidence', 0.5)
DefaultMaxTextLength == 2000   \* LLMNER.__init__ default max_text_length

\* the truncation marker "...[截断]" (7 characters)
TruncMark == <<".", ".", ".", "[", "jie", "duan", "]">>

\* dict.get(key, default)
Get(d, key, default) == IF key \in DOMAIN d THEN d[key] ELSE default

\* the text the prompt is built from and the reply is verified against
\* (the parameter text is rebound in extract_entities)
PromptText(t, max_text_length) ==
    IF Len(t) > max_text_length
    THEN Slice(t, 0, max_text_length) \o TruncMark
    ELSE t

\* _parse_llm_response: a reply is
\*   [kind |-> "raise"]             the completion function raises
\*   [kind |-> "nojson"]            no decodable structured block
\*   [kind |-> "json", data |-> d]  a block that decodes to the dict d
\*   [kind |-> "nondict"]           a reply that decodes to a JSON value
\*                                  other than an object ([], 5, null)
ParseItem(item, original_text) ==
    LET start == Get(item, "start", 0)
        end == Get(item, "end", 0)
        expected_text == Get(item, "text", <<>>)
    IN IF 0 <= start /\ start < end /\ end <= Len(original_text)
          /\ Slice(original_text, start, end) = expected_text
       THEN <<Entity(expected_text, Get(item, "label", <<"UNKNOWN">>),
                     start, end, Get(item, "confidence", default_confidence))>>
       ELSE <<>>

_parse_llm_response(response, original_text) ==
    IF response.kind = "json"
    THEN LET items == Get(response.data, "entities", <<>>) IN
         Concat([i \in 1..Len(items) |-> ParseItem(items[i], original_text)])
    ELSE <<>>      \* _fallback_parse

\* no confidence filter
KeepAll(es, threshold) == es

FilterConfidence(es, threshold) ==
    SelectSeq(es, LAMBDA e : e.confidence >= threshold)

\* data.get(...) on a decoded value that is not a dict raises
\* AttributeError, which the except clause of _parse_llm_response does not
\* list (it lists JSONDecodeError, KeyError, ValueError)
ParseRaises(response) == response.kind = "nondict"

\* LLMNER.extract_entities: [ok |-> TRUE, val |-> entities] or NERError
\* (the except clause of extract_entities wraps every exception)
LLMNER_extract_entities(t, response, threshold, max_text_length) ==
    IF response.kind = "raise" \/ ParseRaises(response)
    THEN [ok |-> FALSE, err |-> "NERError"]
    ELSE [ok |-> TRUE,
          val |-> FilterConfidence(
                    _parse_llm_response(response,
                                        PromptText(t, max_text_length)),
                    threshold)]

---------------------------------------------------------------------------
(* HybridNER *)

\* index of the first accepted entity that overlaps entity, 0 if none
FirstOverlap(acc, entity) ==
    IF \E i \in 1..Len(acc) : _is_overlap(entity, acc[i])
    THEN CHOOSE i \in 1..Len(acc) :
            /\ _is_overlap(entity, acc[i])
            /\ \A j \in 1..(i - 1) : ~_is_overlap(entity, acc[j])
    ELSE 0

\* a merge step in which a candidate of equal confidence replaces as well
MergeStepOnTie(acc, entity) ==
    LET i == FirstOverlap(acc, entity) IN
    IF i = 0 THEN Append(acc, entity)
    ELSE IF entity.confidence >= acc[i].confidence
         THEN [acc EXCEPT ![i] = entity]
         ELSE acc

\* one iteration of the for loop of _merge_entities
MergeStep(acc, entity) ==
    LET i == FirstOverlap(acc, entity) IN
    IF i = 0 THEN Append(acc, entity)
    ELSE IF entity.confidence > acc[i].confidence
         THEN [acc EXCEPT ![i] = entity]
         ELSE acc

RECURSIVE MergeLoop(_, _)
MergeLoop(rest, acc) ==
    IF rest = <<>> THEN acc
    ELSE MergeLoop(Tail(rest), MergeStep(acc, Head(rest)))

\* the merge scan without the sort by start
MergeUnsorted(es) == MergeLoop(es, <<>>)

_merge_entities(es) == MergeLoop(SortAscending(es), <<>>)

\* HybridNER.extract_entities when llm_ner is None
HybridNER_without_llm(pats, t) ==
    [ok |-> TRUE, val |-> _merge_entities(RegexNER_extract_entities(pats, t))]

\* a hybrid extractor that degrades to the pattern result when the
\* delegated extractor fails
HybridDegrades(pats, t, response, threshold, max_text_length) ==
    LET regex_entities == RegexNER_extract_entities(pats, t)
        llm == LLMNER_extract_entities(t, response, threshold, max_text_length)
    IN IF ~llm.ok THEN [ok |-> TRUE, val |-> _merge_entities(regex_entities)]
       ELSE [ok |-> TRUE, val |-> _merge_entities(regex_entities \o llm.val)]

\* HybridNER.extract_entities with both sub-extractors
HybridNER_extract_entities(pats, t, response, threshold, max_text_length) ==
    LET regex_entities == RegexNER_extract_entities(pats, t)
        llm == LLMNER_extract_entities(t, response, threshold, max_text_length)
    IN IF ~llm.ok THEN llm
       ELSE [ok |-> TRUE, val |-> _merge_entities(regex_entities \o llm.val)]

\* an extractor that calls a second time when the first call raised
RetryOnFailure(response) == IF response.kind = "raise" THEN 2 ELSE 1

\* Number of times one extract_entities call invokes the completion
\* function.  LLMNER.extract_entities calls self.llm_caller(prompt) in one
\* statement outside any loop, before the reply is parsed, and its except
\* clause re-raises without calling again.
LLMNER_invocations(response) == 1

\* HybridNER.extract_entities calls the delegated extractor once if it has one
HybridNER_invocations(has_llm, response) ==
    IF has_llm THEN LLMNER_invocations(response) ELSE 0

\* self.ner.extract_entities(text) in mask, for the extractor _init_ner built
Invocations(strategy, has_llm, response) ==
    CASE strategy = "regex_only" -> 0
      [] strategy = "llm_only" -> LLMNER_invocations(response)
      [] strategy = "hybrid" -> HybridNER_invocations(has_llm, response)

---------------------------------------------------------------------------
(* DataMasker.unmask *)

OCTDIGITS == {"0", "1", "2", "3", "4", "5", "6", "7"}

\* The replacement string of re.sub is a template: parse_template of the
\* re module processes its backslash escapes.  [ok |-> FALSE] is re.error.
RECURSIVE ExpandTemplate(_)
ExpandTemplate(v) ==
    IF v = <<>> THEN [ok |-> TRUE, val |-> <<>>]
    ELSE IF Head(v) # "\\"
    THEN LET r == ExpandTemplate(Tail(v)) IN
         IF r.ok THEN [ok |-> TRUE, val |-> <<Head(v)>> \o r.val] ELSE r
    ELSE IF Len(v) = 1 THEN [ok |-> FALSE]       \* bad escape (end of pattern)
    ELSE LET c == v[2]
             octal3 == /\ Len(v) >= 4
                       /\ c \in OCTDIGITS /\ v[3] \in OCTDIGITS
                       /\ v[4] \in OCTDIGITS
             n == IF octal3 THEN 4
                  ELSE IF c = "0" /\ Len(v) >= 3 /\ v[3] \in OCTDIGITS
                       THEN 3 ELSE 2
             r == ExpandTemplate(SubSeq(v, n + 1, Len(v)))
             out(x) == IF r.ok THEN [ok |-> TRUE, val |-> x \o r.val] ELSE r
         IN CASE c = "n" -> out(<<"NL">>)
              [] c = "a" -> out(<<"BEL">>)
              [] c = "\\" -> out(<<"\\">>)
              [] c \in DIGITS /\ octal3 -> out(<<"OCT">>)   \* \ooo
              [] c = "0" /\ ~octal3 -> out(<<"OCT">>)      \* \0, \0o
              [] c \in DIGITS \ {"0"} /\ ~octal3 ->
                     [ok |-> FALSE]              \* invalid group reference
              [] c \in ASCII_LETTERS \ {"n", "a"} ->
                     [ok |-> FALSE]              \* bad escape
              [] OTHER -> out(<<"\\", c>>)

\* replacement of every token that agrees with tk up to the hash component
RECURSIVE ReplaceAnyHash(_, _, _)
ReplaceAnyHash(s, tk, rep) ==
    IF s = <<>> THEN <<>>
    ELSE IF /\ Len(s) >= Len(tk)
            /\ SubSeq(s, 1, Len(tk) - 2) = SubSeq(tk, 1, Len(tk) - 2)
            /\ s[Len(tk)] = ">"
         THEN rep \o ReplaceAnyHash(SubSeq(s, Len(tk) + 1, Len(s)), tk, rep)
         ELSE <<Head(s)>> \o ReplaceAnyHash(Tail(s), tk, rep)

\* re.sub(re.escape(tk), rep, s) with rep already expanded: every
\* non-overlapping occurrence of the literal tk, scanning left to right
RECURSIVE ReplaceAll(_, _, _)
ReplaceAll(s, tk, rep) ==
    IF s = <<>> THEN <<>>
    ELSE IF OccursAt(s, tk, 0)
         THEN rep \o ReplaceAll(SubSeq(s, Len(tk) + 1, Len(s)), tk, rep)
         ELSE <<Head(s)>> \o ReplaceAll(Tail(s), tk, rep)

\* sorted(mapping.keys(), key=len, reverse=True): stable
RECURSIVE InsertByLen(_, _)
InsertByLen(e, s) ==
    IF s = <<>> THEN <<e>>
    ELSE IF Len(Head(s).key) >= Len(e.key)
         THEN <<Head(s)>> \o InsertByLen(e, Tail(s))
         ELSE <<e>> \o s

RECURSIVE tokens_sorted(_)
tokens_sorted(m) ==
    IF m = <<>> THEN <<>>
    ELSE InsertByLen(m[Len(m)], tokens_sorted(SubSeq(m, 1, Len(m) - 1)))

\* the for loop of unmask over the sorted tokens
RECURSIVE UnmaskLoop(_, _)
UnmaskLoop(result, toks) ==
    IF toks = <<>> THEN [ok |-> TRUE, val |-> result]
    ELSE LET rep == ExpandTemplate(Head(toks).value) IN
         IF ~rep.ok THEN [ok |-> FALSE, err |-> "UnmaskingError"]
         ELSE UnmaskLoop(ReplaceAll(result, Head(toks).key, rep.val),
                         Tail(toks))

\* DataMasker.unmask(text, mapping); a mapping is the sequence of its
\* entries [key, value] in insertion order
unmask(t, m) == UnmaskLoop(t, tokens_sorted(m))

Keys(m) == {m[i].key : i \in 1..Len(m)}
Values(m) == {m[i].value : i \in 1..Len(m)}

---------------------------------------------------------------------------
(* RAGGuard.postprocess *)

\* str.strip(chars)
RECURSIVE LStrip(_, _)
LStrip(s, chars) ==
    IF s # <<>> /\ Head(s) \in chars THEN LStrip(Tail(s), chars) ELSE s

RECURSIVE RStrip(_, _)
RStrip(s, chars) ==
    IF s # <<>> /\ s[Len(s)] \in chars
    THEN RStrip(SubSeq(s, 1, Len(s) - 1), chars) ELSE s

Strip(s, chars) == RStrip(LStrip(s, chars), chars)

\* str.split(sep) for a one-character separator
RECURSIVE Split(_, _)
Split(s, sep) ==
    IF \E i \in 1..Len(s) : s[i] = sep
    THEN LET i == CHOOSE k \in 1..Len(s) :
                     s[k] = sep /\ \A j \in 1..(k - 1) : s[j] # sep
         IN <<SubSeq(s, 1, i - 1)>> \o Split(SubSeq(s, i + 1, Len(s)), sep)
    ELSE <<s>>

\* partial_unmask is None or a list of labels
None == [none |-> TRUE, labels |-> <<>>]
Labels(ls) == [none |-> FALSE, labels |-> ls]

\* Python truth value of partial_unmask
Truthy(partial) == ~partial.none /\ partial.labels # <<>>

IsGiven(partial) == ~partial.none

filtered_mapping(m, partial) ==
    SelectSeq(m, LAMBDA en :
        LET parts == Split(Strip(en.key, {"<", ">"}), ":") IN
        Len(parts) = 3 /\ parts[2] \in Range(partial.labels))

postprocess(external_answer, m, need_unmask, partial) ==
    IF ~need_unmask THEN [ok |-> TRUE, val |-> external_answer]
    ELSE IF Truthy(partial)
         THEN unmask(external_answer, filtered_mapping(m, partial))
         ELSE unmask(external_answer, m)

---------------------------------------------------------------------------
(* The DataMasker instance and the inputs of its calls *)

\* custom_patterns of the instance: D is [1n]+ and W is [n\\]+ .  The
\* default patterns need an "@", a ".", "http" or six digits to match, which
\* no text of the model contains.
CustomPatterns == << [label |-> <<"D">>, cls |-> {"1", "n"}],
                     [label |-> <<"W">>, cls |-> {"n", "\\"}] >>

Strategies == {"regex_only", "llm_only", "hybrid"}

TextChars == {"a", "1", "n", "\\"}
Texts == SeqsUpTo(TextChars, MaxPieces)

\* candidate items a reply can hold for the prompt text t: a span of t of
\* at most two characters with its true text, with or without a
\* confidence; and one item whose text is not what the span holds
Spans(t) == {sp \in (0..Len(t)) \X (0..Len(t)) : sp[1] < sp[2]}

ShortSpans(t) == {sp \in Spans(t) : sp[2] <= sp[1] + 2}

Items(t) ==
    {[text |-> Slice(t, sp[1], sp[2]), label |-> <<"P">>,
      start |-> sp[1], end |-> sp[2]] : sp \in ShortSpans(t)}
    \cup
    {[text |-> Slice(t, sp[1], sp[2]), label |-> <<"P">>,
      start |-> sp[1], end |-> sp[2], confidence |-> 9] :
        sp \in ShortSpans(t)}
    \cup
    {[text |-> <<"a", "a", "a", "a", "a">>, label |-> <<"P">>,
      start |-> 0, end |-> 1, confidence |-> 9]}

Raise == [kind |-> "raise"]
NoJson == [kind |-> "nojson"]
NonDict == [kind |-> "nondict"]
Json(items) == [kind |-> "json", data |-> [entities |-> items]]

Replies(t) == {Raise, NoJson} \cup {Json(is) : is \in SeqsUpTo(Items(t), MaxItems)}

NoCall == [state |-> "none"]

MaskInit ==
    /\ ner_strategy \in Strategies
    /\ patterns = CustomPatterns
    /\ last_entities = <<>>
    /\ pc = "idle"
    /\ text = <<>>
    /\ reply = NoJson
    /\ entities = <<>>
    /\ idx = 1
    /\ mapping = <<>>
    /\ masked_text = <<>>
    /\ spliced = <<>>
    /\ restored = [ok |-> TRUE, val |-> <<>>]
    /\ ncalls = 0
    /\ first = NoCall
    /\ salt = Salt
    /\ custom_patterns = CustomPatterns
    /\ llm_caller = TRUE
    /\ llm_confidence_threshold = confidence_threshold
    /\ llm_calls = 0
    /\ raised = "none"
    /\ last_add = NoCall

RestoreIdle ==
    /\ u_text = <<>>
    /\ u_mapping = <<>>
    /\ u_partial = None

MergeIdle ==
    /\ cands = <<>>
    /\ merged = <<>>

LLMIdle ==
    /\ l_text = <<>>
    /\ l_reply = NoJson
    /\ l_out = [ok |-> TRUE, val |-> <<>>]

\* the threads of the concurrent scenario
Threads == {1, 2}

ThreadsIdle ==
    /\ t_pc = [i \in Threads |-> "done"]
    /\ t_text = [i \in Threads |-> <<>>]
    /\ t_entities = [i \in Threads |-> <<>>]
    /\ t_seen = [i \in Threads |-> <<>>]
    /\ slot_owner = 0

---------------------------------------------------------------------------
(* DataMasker.mask *)

\* extraction if pattern-only mode went through the merge step as well
ExtractAlwaysMerged(strategy, pats, t, r) ==
    CASE strategy = "regex_only" ->
            [ok |-> TRUE,
             val |-> _merge_entities(RegexNER_extract_entities(pats, t))]
      [] strategy = "llm_only" ->
            LLMNER_extract_entities(t, r, confidence_threshold,
                                    DefaultMaxTextLength)
      [] strategy = "hybrid" ->
            IF llm_caller
            THEN HybridNER_extract_entities(pats, t, r, confidence_threshold,
                                            DefaultMaxTextLength)
            ELSE HybridNER_without_llm(pats, t)

\* self.ner.extract_entities(text) for the extractor _init_ner built
Extract(strategy, pats, t, r) ==
    CASE strategy = "regex_only" ->
            [ok |-> TRUE, val |-> RegexNER_extract_entities(pats, t)]
      [] strategy = "llm_only" ->
            LLMNER_extract_entities(t, r, confidence_threshold,
                                    DefaultMaxTextLength)
      [] strategy = "hybrid" ->
            IF llm_caller
            THEN HybridNER_extract_entities(pats, t, r, confidence_threshold,
                                            DefaultMaxTextLength)
            ELSE HybridNER_without_llm(pats, t)

\* mask(text) up to the for loop: extraction, the last-result slot, the sort
MaskCall(t, r) ==
    /\ pc \in {"idle", "unmasked", "MaskingError"}
    /\ ncalls < MaxCalls
    /\ Invocations(ner_strategy, llm_caller, r) = 0 => r = NoJson
    /\ LET ext == Extract(ner_strategy, patterns, t, r) IN
       /\ text' = t
       /\ llm_calls' = llm_calls + Invocations(ner_strategy, llm_caller, r)
       /\ reply' = r
       /\ ncalls' = ncalls + 1
       /\ first' = IF first.state = "none"
                   THEN [state |-> "started", text |-> t, reply |-> r]
                   ELSE first
       /\ IF ext.ok
          THEN /\ entities' = SortDescending(ext.val)
               /\ last_entities' = SortDescending(ext.val)
               /\ pc' = "loop"
          ELSE /\ entities' = <<>>
               /\ last_entities' = last_entities
               /\ pc' = "MaskingError"
       /\ idx' = 1
       /\ mapping' = <<>>
       /\ masked_text' = t
       /\ spliced' = <<>>
       /\ UNCHANGED <<ner_strategy, patterns, restored>>
    /\ UNCHANGED <<restoreVars, mergeVars, llmVars, configVars, threadVars,
                   raised, last_add>>

\* mapping[token] = entity.text without the membership test
InsertOverwrite(m, token, value) ==
    IF token \notin Keys(m)
    THEN Append(m, [key |-> token, value |-> value])
    ELSE [i \in 1..Len(m) |->
            IF m[i].key = token THEN [key |-> token, value |-> value]
            ELSE m[i]]

\* if token not in mapping: mapping[token] = entity.text
InsertOnce(m, token, value) ==
    IF token \notin Keys(m)
    THEN Append(m, [key |-> token, value |-> value])
    ELSE m

\* one iteration of the for loop of mask
MaskStep ==
    /\ pc = "loop"
    /\ idx <= Len(entities)
    /\ LET entity == entities[idx]
           token == _token(entity.label, entity.text)
       IN /\ mapping' = InsertOnce(mapping, token, entity.text)
          /\ masked_text' = Slice(masked_text, 0, entity.start) \o token \o
                            Slice(masked_text, entity.end, Len(masked_text))
          /\ spliced' = Append(spliced, token)
    /\ idx' = idx + 1
    /\ UNCHANGED <<ner_strategy, patterns, last_entities, pc, text, reply,
                   entities, restored, ncalls, first>>
    /\ UNCHANGED <<restoreVars, mergeVars, llmVars, configVars, threadVars,
                   llm_calls, raised, last_add>>

\* return masked_text, mapping, entities
MaskReturn ==
    /\ pc = "loop"
    /\ idx > Len(entities)
    /\ pc' = "returned"
    /\ first' = IF first.state = "started"
                THEN [state |-> "done", text |-> first.text,
                      reply |-> first.reply, masked_text |-> masked_text,
                      mapping |-> mapping]
                ELSE first
    /\ UNCHANGED <<ner_strategy, patterns, last_entities, text, reply,
                   entities, idx, mapping, masked_text, spliced, restored,
                   ncalls>>
    /\ UNCHANGED <<restoreVars, mergeVars, llmVars, configVars, threadVars,
                   llm_calls, raised, last_add>>

\* the caller hands what mask returned to unmask
UnmaskReturned ==
    /\ pc = "returned"
    /\ restored' = unmask(masked_text, mapping)
    /\ pc' = "unmasked"
    /\ UNCHANGED <<ner_strategy, patterns, last_entities, text, reply,
                   entities, idx, mapping, masked_text, spliced, ncalls,
                   first>>
    /\ UNCHANGED <<restoreVars, mergeVars, llmVars, configVars, threadVars,
                   llm_calls, raised, last_add>>

Init == MaskInit /\ RestoreIdle /\ MergeIdle /\ LLMIdle /\ ThreadsIdle

\* a fresh instance is given one text
MaskOnce ==
    /\ ncalls = 0
    /\ \E t \in Texts : \E r \in Replies(t) : MaskCall(t, r)

Next ==
    \/ MaskOnce
    \/ MaskStep
    \/ MaskReturn
    \/ UnmaskReturned

Spec == Init /\ [][Next]_vars

---------------------------------------------------------------------------
(* One instance reused for several mask calls *)

ReuseTexts == {<<"1">>, <<"n", "a", "n">>, <<"1", "n", "\\">>}

ReuseReplies(t) ==
    {NoJson, Raise,
     Json(<<[text |-> Slice(t, 0, 1), label |-> <<"P">>, start |-> 0,
             end |-> 1, confidence |-> 9]>>)}

MaskAgain == \E t \in ReuseTexts : \E r \in ReuseReplies(t) : MaskCall(t, r)

NextReuse ==
    \/ MaskAgain
    \/ MaskStep
    \/ MaskReturn
    \/ UnmaskReturned

SpecReuse == Init /\ [][NextReuse]_vars

---------------------------------------------------------------------------
(* DataMasker.unmask and RAGGuard.postprocess on any text and mapping *)

MaskIdle == MaskInit /\ ner_strategy = "regex_only"

\* tokens of the labels D and W, as the generator shapes them
UKeys == {TokenPrefix \o <<"D", ":", Base32[1], ">">>,
          TokenPrefix \o <<"D", ":", Base32[2], ">">>,
          TokenPrefix \o <<"W", ":", Base32[1], ">">>}

UValues == {<<"1">>, <<"\\", "n">>, TokenPrefix \o <<"D", ":", "2", ">">>}

UMappings ==
    {m \in SeqsUpTo([key : UKeys, value : UValues], MaxEntries) :
        \A i, j \in 1..Len(m) : i # j => m[i].key # m[j].key}

UPieces == {<<"a">>} \cup UKeys

UTexts == {Concat(ps) : ps \in SeqsUpTo(UPieces, MaxUPieces)}

UPartials == {None, Labels(<<>>), Labels(<<<<"D">>>>), Labels(<<<<"W">>>>),
              Labels(<<<<"D">>, <<"W">>>>)}

\* the caller calls unmask(u_text, u_mapping)
UnmaskCall ==
    /\ pc = "idle"
    /\ u_partial = None
    /\ restored' = unmask(u_text, u_mapping)
    /\ pc' = "unmask_done"
    /\ UNCHANGED <<ner_strategy, patterns, last_entities, text, reply,
                   entities, idx, mapping, masked_text, spliced, ncalls,
                   first>>
    /\ UNCHANGED <<restoreVars, mergeVars, llmVars, configVars, threadVars,
                   llm_calls, raised, last_add>>

\* the caller calls postprocess(u_text, u_mapping, need_unmask, u_partial)
PostprocessCall(need_unmask) ==
    /\ pc = "idle"
    /\ restored' = postprocess(u_text, u_mapping, need_unmask, u_partial)
    /\ pc' = IF need_unmask THEN "postprocess_done" ELSE "postprocess_skipped"
    /\ UNCHANGED <<ner_strategy, patterns, last_entities, text, reply,
                   entities, idx, mapping, masked_text, spliced, ncalls,
                   first>>
    /\ UNCHANGED <<restoreVars, mergeVars, llmVars, configVars, threadVars,
                   llm_calls, raised, last_add>>

NextRestore ==
    \/ UnmaskCall
    \/ \E need_unmask \in BOOLEAN : PostprocessCall(need_unmask)

InitRestore ==
    /\ MaskIdle /\ MergeIdle /\ LLMIdle /\ ThreadsIdle
    /\ u_text \in UTexts
    /\ u_mapping \in UMappings
    /\ u_partial \in UPartials

SpecRestore == InitRestore /\ [][NextRestore]_vars

---------------------------------------------------------------------------
(* HybridNER._merge_entities on any candidate sequence *)

Confidences == {5, 7, 10}

MergeSource == [i \in 1..MaxPos |-> "a"]

CandEntities ==
    {Entity(Slice(MergeSource, sp[1], sp[2]), <<"P">>, sp[1], sp[2], c) :
        sp \in Spans(MergeSource), c \in Confidences}

MergeCall ==
    /\ pc = "idle"
    /\ merged' = _merge_entities(cands)
    /\ pc' = "merged"
    /\ UNCHANGED <<ner_strategy, patterns, last_entities, text, reply,
                   entities, idx, mapping, masked_text, spliced, restored,
                   ncalls, first, cands>>
    /\ UNCHANGED <<restoreVars, llmVars, configVars, threadVars, llm_calls,
                   raised, last_add>>

NextMerge == MergeCall

InitMerge ==
    /\ MaskIdle /\ RestoreIdle /\ LLMIdle /\ ThreadsIdle
    /\ cands \in SeqsUpTo(CandEntities, MaxCands)
    /\ merged = <<>>

SpecMerge == InitMerge /\ [][NextMerge]_vars

---------------------------------------------------------------------------
(* LLMNER.extract_entities on texts around max_text_length *)

\* max_text_length the extractor of this specification is constructed with
SmallMaxTextLength == 2

LTexts == SeqsUpTo({"a", "n"}, SmallMaxTextLength + MaxExtra)

\* items of a reply: a span of at most two characters, inside or one past
\* the text the prompt shows, reported with what the prompt text holds
\* there or with what the caller's text holds there
LItems(t) ==
    LET shown == PromptText(t, SmallMaxTextLength)
        spans == {sp \in (0..Len(shown)) \X (1..(Len(shown) + 1)) :
                     sp[1] < sp[2] /\ sp[2] <= sp[1] + 2}
        item(src, sp, c) ==
            IF c = 0
            THEN [text |-> src, label |-> <<"P">>, start |-> sp[1],
                  end |-> sp[2]]
            ELSE [text |-> src, label |-> <<"P">>, start |-> sp[1],
                  end |-> sp[2], confidence |-> c]
    IN {item(Slice(shown, sp[1], sp[2]), sp, c) : sp \in spans, c \in {0, 9}}
       \cup {item(Slice(t, sp[1], sp[2]), sp, c) : sp \in spans, c \in {0, 9}}

LReplies(t) ==
    {Raise, NoJson, NonDict, [kind |-> "json", data |-> <<>>]}
    \cup {Json(is) : is \in SeqsUpTo(LItems(t), MaxItems)}

ExtractCall ==
    /\ pc = "idle"
    /\ l_out' = LLMNER_extract_entities(l_text, l_reply, confidence_threshold,
                                        SmallMaxTextLength)
    /\ pc' = "extracted"
    /\ UNCHANGED <<ner_strategy, patterns, last_entities, text, reply,
                   entities, idx, mapping, masked_text, spliced, restored,
                   ncalls, first, l_text, l_reply>>
    /\ UNCHANGED <<restoreVars, mergeVars, configVars, threadVars,
                   llm_calls, raised, last_add>>

NextLLM == ExtractCall

InitLLM ==
    /\ MaskIdle /\ RestoreIdle /\ MergeIdle /\ ThreadsIdle
    /\ l_text \in LTexts
    /\ l_reply \in LReplies(l_text)
    /\ l_out = [ok |-> TRUE, val |-> <<>>]

SpecLLM == InitLLM /\ [][NextLLM]_vars

---------------------------------------------------------------------------
(* Construction (DataMasker.__init__ as RAGGuardian.__init__ calls it, *)
(* RegexNER.__init__, HybridNER.__init__) and DataMasker.add_pattern     *)

\* a pattern source that is not a regular expression, such as "("
Malformed(label) == [label |-> label]

\* re.compile(pattern)
re_compile(p) ==
    IF "cls" \in DOMAIN p THEN [ok |-> TRUE, val |-> p]
    ELSE [ok |-> FALSE, err |-> "re.error"]

\* RegexNER.__init__: compiles every pattern, NERError at the first failure
RegexNER_init(pats) ==
    IF \A i \in 1..Len(pats) : re_compile(pats[i]).ok
    THEN [ok |-> TRUE, val |-> pats]
    ELSE [ok |-> FALSE, err |-> "NERError"]

\* HybridNER.__init__
HybridNER_init(regex_ner, llm_ner) ==
    IF ~regex_ner /\ ~llm_ner THEN [ok |-> FALSE, err |-> "NERError"]
    ELSE [ok |-> TRUE]

\* a salt check that only rejects the empty salt
AcceptsShortSalt(s) == s # <<>>

\* _validate_salt: TRUE if the salt passes
_validate_salt(s) == s # <<>> /\ Len(s) >= 8

\* _init_ner: the patterns of the pattern extractor it built (none under
\* llm_only), or MaskingError
_init_ner(strategy, pats, has_llm) ==
    LET built ==
          CASE strategy = "regex_only" -> RegexNER_init(pats)
            [] strategy = "llm_only" ->
                  IF ~has_llm THEN [ok |-> FALSE, err |-> "NERError"]
                  ELSE [ok |-> TRUE, val |-> <<>>]
            [] strategy = "hybrid" ->
                  LET regex_ner == RegexNER_init(pats) IN
                  IF ~regex_ner.ok THEN regex_ner
                  ELSE IF HybridNER_init(TRUE, has_llm).ok THEN regex_ner
                       ELSE [ok |-> FALSE, err |-> "NERError"]
            [] OTHER -> [ok |-> FALSE, err |-> "NERError"]
    IN IF built.ok THEN built ELSE [ok |-> FALSE, err |-> "MaskingError"]

\* d[name] = pattern on a dict kept in insertion order
DictSet(d, p) ==
    IF \E i \in 1..Len(d) : d[i].label = p.label
    THEN [i \in 1..Len(d) |-> IF d[i].label = p.label THEN p ELSE d[i]]
    ELSE Append(d, p)

\* registration that removes the entry of that name before compiling
AddPatternDropsOld(strategy, pats, p) ==
    IF strategy \in {"regex_only", "hybrid"}
    THEN LET compiled == re_compile(p) IN
         IF compiled.ok
         THEN [raised |-> "none", patterns |-> DictSet(pats, compiled.val)]
         ELSE [raised |-> "MaskingError",
               patterns |-> SelectSeq(pats, LAMBDA q : q.label # p.label)]
    ELSE [raised |-> "MaskingError", patterns |-> pats]

\* add_pattern(name, pattern): the exception raised ("none" if it returned)
\* and the pattern dict afterwards.  A RegexNER has the attribute patterns,
\* a HybridNER built by _init_ner has a regex_ner, an LLMNER has neither.
add_pattern(strategy, pats, p) ==
    IF strategy \in {"regex_only", "hybrid"}
    THEN LET compiled == re_compile(p) IN
         IF compiled.ok
         THEN [raised |-> "none", patterns |-> DictSet(pats, compiled.val)]
         ELSE [raised |-> "MaskingError", patterns |-> pats]
    ELSE [raised |-> "MaskingError", patterns |-> pats]

ShortSalt == <<"s", "0", "0", "0", "0", "0", "0">>
Salts == {Salt, ShortSalt, <<>>}

CustomPatternSets ==
    {CustomPatterns,
     <<[label |-> <<"D">>, cls |-> {"1", "n"}], Malformed(<<"W">>)>>}

\* llm_confidence_threshold values of the configuration: 0.5, 0.7, 1.0
Thresholds == {5, confidence_threshold, 10}

\* patterns a caller registers: a new class for the label D, a new label X
AddablePatterns ==
    {[label |-> <<"D">>, cls |-> {"a"}], Malformed(<<"D">>),
     [label |-> <<"X">>, cls |-> {"a", "1"}], Malformed(<<"X">>)}

ConfigTexts == {<<"n", "a", "1">>, <<"a">>}

ConfigReplies(t) ==
    {NoJson, Raise,
     Json(<<[text |-> Slice(t, 0, 1), label |-> <<"P">>, start |-> 0,
             end |-> 1]>>),
     Json(<<[text |-> Slice(t, 0, 1), label |-> <<"P">>, start |-> 0,
             end |-> 1, confidence |-> 9]>>)}

\* DataMasker(salt, custom_patterns, llm_caller, ..., ner_strategy)
Construct ==
    /\ pc = "new"
    /\ IF ~_validate_salt(salt)
       THEN /\ pc' = "construct_failed"
            /\ raised' = "MaskingError"
            /\ patterns' = patterns
       ELSE LET ner == _init_ner(ner_strategy, custom_patterns, llm_caller)
            IN IF ner.ok
               THEN /\ pc' = "idle"
                    /\ raised' = "none"
                    /\ patterns' = ner.val
               ELSE /\ pc' = "construct_failed"
                    /\ raised' = ner.err
                    /\ patterns' = patterns
    /\ UNCHANGED <<ner_strategy, last_entities, text, reply, entities, idx,
                   mapping, masked_text, spliced, restored, ncalls, first>>
    /\ UNCHANGED <<restoreVars, mergeVars, llmVars, configVars, threadVars,
                   llm_calls, last_add>>

\* HybridNER(regex_ner, llm_ner) built directly, with or without a pattern
\* sub-extractor
NewHybridNER(regex_ner) ==
    /\ pc = "new"
    /\ ner_strategy = "hybrid"
    /\ regex_ner => RegexNER_init(custom_patterns).ok
    /\ LET ner == HybridNER_init(regex_ner, llm_caller) IN
       /\ pc' = IF ner.ok THEN "ner_built" ELSE "construct_failed"
       /\ raised' = IF ner.ok THEN "none" ELSE ner.err
       /\ patterns' = IF ner.ok /\ regex_ner THEN custom_patterns ELSE <<>>
    /\ UNCHANGED <<ner_strategy, last_entities, text, reply, entities, idx,
                   mapping, masked_text, spliced, restored, ncalls, first>>
    /\ UNCHANGED <<restoreVars, mergeVars, llmVars, configVars, threadVars,
                   llm_calls, last_add>>

\* the caller calls add_pattern between two mask calls
AddPattern(p) ==
    /\ pc \in {"idle", "unmasked", "MaskingError"}
    /\ LET r == add_pattern(ner_strategy, patterns, p) IN
       /\ patterns' = r.patterns
       /\ last_add' = [state |-> "done", pattern |-> p, raised |-> r.raised]
    /\ UNCHANGED <<ner_strategy, last_entities, pc, text, reply, entities,
                   idx, mapping, masked_text, spliced, restored, ncalls,
                   first>>
    /\ UNCHANGED <<restoreVars, mergeVars, llmVars, configVars, threadVars,
                   llm_calls, raised>>

ConfigMask ==
    \E t \in ConfigTexts : \E r \in ConfigReplies(t) : MaskCall(t, r)

NextConfig ==
    \/ Construct
    \/ \E regex_ner \in BOOLEAN : NewHybridNER(regex_ner)
    \/ \E p \in AddablePatterns : AddPattern(p)
    \/ ConfigMask
    \/ MaskStep
    \/ MaskReturn
    \/ UnmaskReturned

InitConfig ==
    /\ RestoreIdle /\ MergeIdle /\ LLMIdle /\ ThreadsIdle
    /\ pc = "new"
    /\ salt \in Salts
    /\ custom_patterns \in CustomPatternSets
    /\ llm_caller \in BOOLEAN
    /\ llm_confidence_threshold \in Thresholds
    /\ ner_strategy \in Strategies \cup {"bogus"}
    /\ patterns = <<>>
    /\ last_entities = <<>>
    /\ text = <<>>
    /\ reply = NoJson
    /\ entities = <<>>
    /\ idx = 1
    /\ mapping = <<>>
    /\ masked_text = <<>>
    /\ spliced = <<>>
    /\ restored = [ok |-> TRUE, val |-> <<>>]
    /\ ncalls = 0
    /\ first = NoCall
    /\ llm_calls = 0
    /\ raised = "none"
    /\ last_add = NoCall

SpecConfig == InitConfig /\ [][NextConfig]_vars

---------------------------------------------------------------------------
(* Two threads calling mask on the same DataMasker instance.  Each        *)
(* statement of mask that reads or writes the instance is one step; the   *)
(* rest of a call works on its locals.                                     *)

ThreadTexts == ReuseTexts

\* a slot that holds a copy of the list, which the sort does not reach
SlotKeepsCopy(owner, i, slot, sorted) == slot

\* what self.last_entities shows after thread i sorted its list in place:
\* the slot holds a reference, so it shows the sorted list if it refers to
\* the list of thread i
SlotAfterSort(owner, i, slot, sorted) == IF owner = i THEN sorted ELSE slot

\* entities = self.ner.extract_entities(text)
T_Extract(i) ==
    /\ t_pc[i] = "start"
    /\ t_entities' = [t_entities EXCEPT ![i] =
                         Extract(ner_strategy, patterns, t_text[i], NoJson).val]
    /\ t_pc' = [t_pc EXCEPT ![i] = "extracted"]
    /\ UNCHANGED <<maskVars, restoreVars, mergeVars, llmVars, configVars,
                   llm_calls, raised, last_add, t_text, t_seen, slot_owner>>

\* self.last_entities = entities
T_Store(i) ==
    /\ t_pc[i] = "extracted"
    /\ last_entities' = t_entities[i]
    /\ slot_owner' = i
    /\ t_pc' = [t_pc EXCEPT ![i] = "stored"]
    /\ UNCHANGED <<ner_strategy, patterns, pc, text, reply, entities, idx,
                   mapping, masked_text, spliced, restored, ncalls, first>>
    /\ UNCHANGED <<restoreVars, mergeVars, llmVars, configVars, llm_calls,
                   raised, last_add, t_text, t_entities, t_seen>>

\* entities.sort(key=start, reverse=True), in place
T_Sort(i) ==
    /\ t_pc[i] = "stored"
    /\ LET sorted == SortDescending(t_entities[i]) IN
       /\ t_entities' = [t_entities EXCEPT ![i] = sorted]
       /\ last_entities' = SlotAfterSort(slot_owner, i, last_entities, sorted)
    /\ t_pc' = [t_pc EXCEPT ![i] = "sorted"]
    /\ UNCHANGED <<ner_strategy, patterns, pc, text, reply, entities, idx,
                   mapping, masked_text, spliced, restored, ncalls, first>>
    /\ UNCHANGED <<restoreVars, mergeVars, llmVars, configVars, llm_calls,
                   raised, last_add, t_text, t_seen, slot_owner>>

\* the substitution loop on the locals and return masked_text, mapping,
\* entities
T_Return(i) ==
    /\ t_pc[i] = "sorted"
    /\ t_pc' = [t_pc EXCEPT ![i] = "returned"]
    /\ UNCHANGED <<maskVars, restoreVars, mergeVars, llmVars, configVars,
                   llm_calls, raised, last_add, t_text, t_entities, t_seen,
                   slot_owner>>

\* the thread calls get_last_entities() after its mask call returned
T_GetLast(i) ==
    /\ t_pc[i] = "returned"
    /\ t_seen' = [t_seen EXCEPT ![i] = last_entities]
    /\ t_pc' = [t_pc EXCEPT ![i] = "done"]
    /\ UNCHANGED <<maskVars, restoreVars, mergeVars, llmVars, configVars,
                   llm_calls, raised, last_add, t_text, t_entities,
                   slot_owner>>

NextThreads ==
    \E i \in Threads :
        \/ T_Extract(i)
        \/ T_Store(i)
        \/ T_Sort(i)
        \/ T_Return(i)
        \/ T_GetLast(i)

InitThreads ==
    /\ MaskIdle /\ RestoreIdle /\ MergeIdle /\ LLMIdle
    /\ t_pc = [i \in Threads |-> "start"]
    /\ t_text \in [Threads -> ThreadTexts]
    /\ t_entities = [i \in Threads |-> <<>>]
    /\ t_seen = [i \in Threads |-> <<>>]
    /\ slot_owner = 0

SpecThreads == InitThreads /\ [][NextThreads]_vars

---------------------------------------------------------------------------
(* Properties *)

\* overlap of two spans, as the specification defines it
Overlap(a, b) == a.start < b.end /\ b.start < a.end

NonOverlapping(es) ==
    \A i, j \in 1..Len(es) : i < j => ~Overlap(es[i], es[j])

\* C2: whatever candidates the sub-extractors produce (any spans with
\* start < end, any confidences, any number of mutually overlapping ones),
\* the sequence _merge_entities returns is pairwise non-overlapping.
MergeNonOverlapping == pc = "merged" => NonOverlapping(merged)

\* three mutually overlapping candidates have been merged
MergeClusterWitness ==
    /\ pc = "merged"
    /\ merged # <<>>
    /\ \E i, j, k \in 1..Len(cands) :
          /\ i < j /\ j < k
          /\ Overlap(cands[i], cands[j])
          /\ Overlap(cands[j], cands[k])
          /\ Overlap(cands[i], cands[k])
          /\ cands[j].confidence > cands[i].confidence

\* C4: every entity LLMNER.extract_entities returns lies inside the caller's
\* text and carries the text the caller's text holds at its offsets; when the
\* text was truncated no entity extends beyond the truncated prefix.
LLMEntitiesValid ==
    (pc = "extracted" /\ l_out.ok) =>
        \A i \in 1..Len(l_out.val) :
            LET e == l_out.val[i] IN
            /\ 0 <= e.start /\ e.start < e.end /\ e.end <= Len(l_text)
            /\ Slice(l_text, e.start, e.end) = e.text
            /\ Len(l_text) > SmallMaxTextLength => e.end <= SmallMaxTextLength

\* C1: when the extractor output is pairwise non-overlapping, unmask applied
\* to what mask returned gives back the text exactly.
RoundTrip ==
    (pc = "unmasked" /\ NonOverlapping(entities)) =>
        (restored.ok /\ restored.val = text)

\* the text with every entity span replaced by its token, built left to
\* right from the original text
RECURSIVE Rebuild(_, _, _)
Rebuild(t, es, pos) ==
    IF pos >= Len(t) THEN <<>>
    ELSE IF \E i \in 1..Len(es) : es[i].start = pos
         THEN LET e == es[CHOOSE i \in 1..Len(es) : es[i].start = pos] IN
              _token(e.label, e.text) \o Rebuild(t, es, e.end)
         ELSE <<t[pos + 1]>> \o Rebuild(t, es, pos + 1)

\* C3: mask substitutes in descending order of start; for a non-overlapping
\* sequence, before each step the working string still equals the original
\* text up to the current entity's end, so the span replaced is the entity's
\* text, and the final masked_text is the original text with exactly the
\* entity spans replaced by their tokens.
MaskSpliceInvariant ==
    /\ pc \in {"loop", "returned"} =>
          \A i, j \in 1..Len(entities) :
              i < j => entities[i].start >= entities[j].start
    /\ (pc = "loop" /\ idx <= Len(entities) /\ NonOverlapping(entities)) =>
          LET e == entities[idx] IN
          /\ Slice(masked_text, 0, e.end) = Slice(text, 0, e.end)
          /\ Slice(masked_text, e.start, e.end) = e.text
    /\ (pc = "returned" /\ NonOverlapping(entities)) =>
          masked_text = Rebuild(text, entities, 0)

\* two separated entities have been substituted
MaskSpliceWitness ==
    /\ pc = "returned"
    /\ Len(entities) >= 2
    /\ NonOverlapping(entities)
    /\ entities[2].end < entities[1].start
    /\ Len(spliced) = Len(entities)

\* C5: pattern-only mode substitutes every entity the Pattern Extractor
\* returns, overlapping ones included (a later splice then starts at or
\* before a span that was already replaced and ends beyond its start);
\* hybrid mode substitutes at most one of two overlapping pattern entities.
PatternOnlySkipsMerge ==
    LET regex_entities == RegexNER_extract_entities(patterns, text) IN
    /\ (ner_strategy = "regex_only" /\ pc \in {"loop", "returned"}) =>
          /\ Len(entities) = Len(regex_entities)
          /\ \A i \in 1..Len(regex_entities) :
                regex_entities[i] \in Range(entities)
          /\ pc = "returned" => Len(spliced) = Len(regex_entities)
          /\ \A i, j \in 1..Len(entities) :
                (j < i /\ i < idx /\ Overlap(entities[i], entities[j])) =>
                    /\ entities[i].start <= entities[j].start
                    /\ entities[j].start < entities[i].end
    /\ (ner_strategy = "hybrid" /\ pc \in {"loop", "returned"}) =>
          \A i, j \in 1..Len(regex_entities) :
              (i # j /\ Overlap(regex_entities[i], regex_entities[j])) =>
                  ~(/\ regex_entities[i] \in Range(entities)
                    /\ regex_entities[j] \in Range(entities))

\* pattern-only mode has substituted two partially overlapping entities
PatternOverlapWitness ==
    /\ ner_strategy = "regex_only"
    /\ pc = "returned"
    /\ \E i, j \in 1..Len(entities) :
          /\ i < j
          /\ Overlap(entities[i], entities[j])
          /\ entities[j].start < entities[i].start
          /\ entities[j].end < entities[i].end
    /\ Len(spliced) = Len(entities)

\* the items of the reply, when the reply decodes to a record
ReplyItems(r) ==
    IF r.kind = "json" THEN Get(r.data, "entities", <<>>) ELSE <<>>

\* C6: no candidate of the delegated extractor with a confidence below the
\* threshold (0.5 when the reply omits it) is in the entity sequence of an
\* engine with strategy llm_only or hybrid, and every mapping entry comes
\* from an entity of that sequence, whose confidence is at least the
\* threshold.
LowConfidenceFiltered ==
    (ner_strategy \in {"llm_only", "hybrid"} /\ pc \in {"loop", "returned"}) =>
        /\ \A i \in 1..Len(entities) :
              entities[i].confidence >= confidence_threshold
        /\ \A k \in 1..Len(ReplyItems(reply)) :
              LET item == ReplyItems(reply)[k]
                  c == Get(item, "confidence", default_confidence)
              IN c < confidence_threshold =>
                    Entity(item.text, item.label, item.start, item.end, c)
                        \notin Range(entities)
        /\ \A m \in 1..Len(mapping) :
              \E i \in 1..Len(entities) :
                  /\ entities[i].confidence >= confidence_threshold
                  /\ _token(entities[i].label, entities[i].text) = mapping[m].key
                  /\ entities[i].text = mapping[m].value
        /\ ner_strategy = "llm_only" =>
              \A k \in 1..Len(ReplyItems(reply)) :
                  LET item == ReplyItems(reply)[k] IN
                  (/\ Get(item, "confidence", default_confidence)
                         < confidence_threshold
                   /\ \A k2 \in 1..Len(ReplyItems(reply)) :
                         LET other == ReplyItems(reply)[k2] IN
                         Get(other, "confidence", default_confidence)
                             >= confidence_threshold
                         => other.text # item.text)
                  => item.text \notin Values(mapping)

\* a verified candidate without a confidence was dropped by an llm_only
\* engine that has returned
LowConfidenceWitness ==
    /\ ner_strategy = "llm_only"
    /\ pc = "returned"
    /\ \E k \in 1..Len(ReplyItems(reply)) :
          LET item == ReplyItems(reply)[k] IN
          /\ "confidence" \notin DOMAIN item
          /\ Slice(text, item.start, item.end) = item.text
    /\ entities = <<>>

\* index of the first processed entity whose token is k
FirstProducer(k) ==
    CHOOSE i \in 1..(idx - 1) :
        /\ _token(entities[i].label, entities[i].text) = k
        /\ \A j \in 1..(i - 1) :
              _token(entities[j].label, entities[j].text) # k

\* C10: within one mask call the mapping's keys are exactly the tokens
\* spliced so far, the value of a token is the text of the first entity
\* processed that produced it, which has the greatest start among the
\* entities producing it, and no step changes an entry already inserted.
MappingWriteOnce ==
    /\ [](pc \in {"loop", "returned"} =>
            /\ Keys(mapping) = Range(spliced)
            /\ Len(mapping) = Cardinality(Keys(mapping))
            /\ \A m \in 1..Len(mapping) :
                  LET f == FirstProducer(mapping[m].key) IN
                  /\ mapping[m].value = entities[f].text
                  /\ \A i \in 1..(idx - 1) :
                        _token(entities[i].label, entities[i].text)
                            = mapping[m].key
                        => entities[f].start >= entities[i].start)
    /\ [][(pc = "loop" /\ pc' \in {"loop", "returned"}) =>
            /\ Len(mapping') >= Len(mapping)
            /\ \A m \in 1..Len(mapping) : mapping'[m] = mapping[m]]_vars

\* two entities with different texts produced the same token
CollisionWitness ==
    /\ pc = "returned"
    /\ \E i, j \in 1..Len(entities) :
          /\ i < j
          /\ entities[i].text # entities[j].text
          /\ entities[i].start > entities[j].start
          /\ _token(entities[i].label, entities[i].text)
                = _token(entities[j].label, entities[j].text)
          /\ \E m \in 1..Len(mapping) :
                /\ mapping[m].key = spliced[j]
                /\ mapping[m].value = entities[i].text

\* C9: two occurrences of the same (label, text) in one text get the same
\* token and one mapping entry, and a mask call with the text and completion
\* reply of the instance's first call returns the masked_text and mapping
\* that call returned, whatever was called in between.
MaskDeterministic ==
    /\ pc \in {"loop", "returned"} =>
          \A i, j \in 1..(idx - 1) :
              (/\ entities[i].label = entities[j].label
               /\ entities[i].text = entities[j].text) =>
                  /\ spliced[i] = spliced[j]
                  /\ Cardinality({m \in 1..Len(mapping) :
                                     mapping[m].key = spliced[i]}) = 1
    /\ (/\ pc = "returned" /\ first.state = "done"
        /\ text = first.text /\ reply = first.reply) =>
          /\ masked_text = first.masked_text
          /\ mapping = first.mapping

\* the first text, which mentions one value twice, was masked again after
\* a call on another text
RepeatedCallWitness ==
    /\ pc = "returned"
    /\ ncalls >= 3
    /\ first.state = "done"
    /\ text = first.text /\ reply = first.reply
    /\ restored.ok /\ restored.val = <<"1">> /\ text # <<"1">>
    /\ \E i, j \in 1..Len(entities) :
          /\ i < j
          /\ entities[i].label = entities[j].label
          /\ entities[i].text = entities[j].text

\* a string of the token's textual shape <RG:X:Y>
TokenShaped(k) ==
    /\ Len(k) >= Len(TokenPrefix) + 2
    /\ SubSeq(k, 1, Len(TokenPrefix)) = TokenPrefix
    /\ k[Len(k)] = ">"
    /\ \A i \in 2..(Len(k) - 1) : k[i] \notin {"<", ">"}
    /\ \E i \in (Len(TokenPrefix) + 1)..(Len(k) - 1) : k[i] = ":"

\* C7: unmask changes nothing when no key of the mapping occurs in the text
\* (in particular with an empty mapping), and a token-shaped substring that
\* is not a key stays where it is: the result is the unmasked text before
\* it, the substring itself, and the unmasked text after it.
UnknownTokenSafety ==
    (pc = "unmask_done" /\ restored.ok) =>
        /\ u_mapping = <<>> => restored.val = u_text
        /\ (\A k \in Keys(u_mapping) : ~Contains(u_text, k)) =>
              restored.val = u_text
        /\ \A a \in 0..Len(u_text) : \A b \in a..Len(u_text) :
              LET k == Slice(u_text, a, b) IN
              (TokenShaped(k) /\ k \notin Keys(u_mapping)) =>
                  LET before == unmask(Slice(u_text, 0, a), u_mapping)
                      after == unmask(Slice(u_text, b, Len(u_text)), u_mapping)
                  IN /\ before.ok /\ after.ok
                     /\ restored.val = before.val \o k \o after.val

\* a text with a key of the mapping and an unknown token was unmasked
UnknownTokenWitness ==
    /\ pc = "unmask_done"
    /\ restored.ok
    /\ restored.val # u_text
    /\ \E a \in 0..Len(u_text) : \E b \in a..Len(u_text) :
          /\ TokenShaped(Slice(u_text, a, b))
          /\ Slice(u_text, a, b) \notin Keys(u_mapping)
          /\ Contains(restored.val, Slice(u_text, a, b))

\* the label embedded in a token
EmbeddedLabel(k) == SubSeq(k, Len(TokenPrefix) + 1, Len(k) - 3)

\* the text with every occurrence of a key of m replaced by its value, in
\* one pass from left to right
RECURSIVE RestoreOnly(_, _)
RestoreOnly(t, m) ==
    IF t = <<>> THEN <<>>
    ELSE IF \E i \in 1..Len(m) : OccursAt(t, m[i].key, 0)
         THEN LET en == m[CHOOSE i \in 1..Len(m) : OccursAt(t, m[i].key, 0)]
              IN en.value \o RestoreOnly(SubSeq(t, Len(en.key) + 1, Len(t)), m)
         ELSE <<Head(t)>> \o RestoreOnly(Tail(t), m)

\* C8: postprocess with a set of allowed labels (the empty set included)
\* restores exactly the tokens whose embedded label is in the set and leaves
\* every other token in the output unchanged.
PartialUnmaskExact ==
    (pc = "postprocess_done" /\ IsGiven(u_partial)) =>
        /\ restored.ok
        /\ restored.val =
              RestoreOnly(u_text,
                  SelectSeq(u_mapping, LAMBDA en :
                      EmbeddedLabel(en.key) \in Range(u_partial.labels)))

\* C11: when the completion function raises during a mask call of an engine
\* with strategy llm_only or hybrid, the call ends with a MaskingError: it
\* never reaches the substitution loop or its return, it leaves no mapping,
\* no spliced token and no entity sequence, also when the pattern
\* sub-extractor had found entities in the text, and the failed call makes
\* no further step: the next step of the instance is a new mask call.
NoPartialResult ==
    /\ []((/\ ncalls > 0 /\ reply = Raise
           /\ ner_strategy \in {"llm_only", "hybrid"}) =>
              /\ pc = "MaskingError"
              /\ mapping = <<>> /\ spliced = <<>> /\ entities = <<>>
              /\ ncalls = 1 => first.state = "started")
    /\ [][pc = "MaskingError" =>
            (pc' \notin {"returned", "unmasked"} /\
             (pc' = "loop" => ncalls' = ncalls + 1))]_vars

\* the completion function raised in the second call of a hybrid engine,
\* on a text in which the pattern sub-extractor finds entities
HybridFailureWitness ==
    /\ ner_strategy = "hybrid"
    /\ reply = Raise
    /\ pc = "MaskingError"
    /\ RegexNER_extract_entities(patterns, text) # <<>>
    /\ ncalls = 2
    /\ first.state = "done"
    /\ first.text # text

\* C12: a reply without a decodable structured block makes
\* LLMNER.extract_entities return an empty sequence without raising, a
\* completion function that raises makes it raise NERError, and there is no
\* other outcome besides a parsed list: whatever value the completion
\* function returns, extract_entities does not raise.
ReplyOutcomes ==
    pc = "extracted" =>
        /\ l_reply.kind = "raise" => (~l_out.ok /\ l_out.err = "NERError")
        /\ l_reply.kind = "nojson" => (l_out.ok /\ l_out.val = <<>>)
        /\ l_reply.kind # "raise" => l_out.ok

\* states in which a DataMasker instance exists
Constructed == pc \in {"idle", "loop", "returned", "unmasked", "MaskingError"}

\* C13: every extraction of the delegated extractor invokes the completion
\* function exactly once, whether it succeeds, yields nothing or fails: the
\* number of invocations equals the number of mask calls started under
\* llm_only and under hybrid with a completion function, it is zero under
\* regex_only (and under hybrid without a completion function), and each
\* mask call adds exactly one or exactly none.
OneCallPerExtraction ==
    /\ [](Constructed =>
            llm_calls = IF \/ ner_strategy = "llm_only"
                           \/ (ner_strategy = "hybrid" /\ llm_caller)
                        THEN ncalls ELSE 0)
    /\ [][llm_calls' # llm_calls =>
            (ncalls' = ncalls + 1 /\ llm_calls' = llm_calls + 1)]_vars

\* a hybrid engine has made a successful call and a call in which the
\* completion function raised
CallCountWitness ==
    /\ ner_strategy = "hybrid" /\ llm_caller
    /\ pc = "MaskingError" /\ reply = Raise
    /\ first.state = "done"
    /\ ncalls >= 2
    /\ llm_calls = ncalls

BadSalt == Len(salt) < 8
UnknownStrategy == ner_strategy \notin Strategies
MalformedPattern ==
    \E i \in 1..Len(custom_patterns) : "cls" \notin DOMAIN custom_patterns[i]
MissingCaller == ner_strategy \in {"llm_only", "hybrid"} /\ ~llm_caller

\* C14 as stated: a DataMasker with a short salt, an unknown strategy, a
\* malformed pattern, or a strategy llm_only or hybrid without a completion
\* function is never constructed (construction raises), so no mask call
\* runs on such a configuration; a hybrid extractor without sub-extractor
\* is never built.
EagerConfigErrors ==
    /\ (BadSalt \/ UnknownStrategy \/ MalformedPattern \/ MissingCaller) =>
          /\ ~Constructed
          /\ ncalls = 0
          /\ pc = "construct_failed" => raised # "none"
    /\ pc = "ner_built" => (patterns # <<>> \/ llm_caller)

\* C14 amended: construction raises MaskingError for a short salt, an
\* unknown strategy, a malformed pattern under regex_only or hybrid, and
\* llm_only without a completion function, and for nothing else; HybridNER
\* built without any sub-extractor raises NERError; no mask call runs on
\* such a configuration.  A hybrid DataMasker without a completion function
\* is constructed: it extracts with the pattern sub-extractor and the merge
\* step alone and never invokes a completion function.
EagerConfigErrorsAmended ==
    LET rejected ==
          \/ BadSalt
          \/ UnknownStrategy
          \/ (MalformedPattern /\ ner_strategy \in {"regex_only", "hybrid"})
          \/ (ner_strategy = "llm_only" /\ ~llm_caller)
    IN /\ rejected => (~Constructed /\ ncalls = 0)
       /\ pc = "construct_failed" =>
             \/ (raised = "MaskingError" /\ rejected)
             \/ (/\ raised = "NERError" /\ patterns = <<>>
                 /\ ner_strategy = "hybrid" /\ ~llm_caller)
       /\ pc = "ner_built" => (patterns # <<>> \/ llm_caller)
       /\ (Constructed /\ ner_strategy = "hybrid" /\ ~llm_caller) =>
             /\ llm_calls = 0
             /\ pc \in {"loop", "returned"} =>
                   entities = SortDescending(_merge_entities(
                                 RegexNER_extract_entities(patterns, text)))

\* construction of a hybrid engine with a valid salt, a completion function
\* and a malformed pattern has failed
ConfigErrorWitness ==
    /\ pc = "construct_failed"
    /\ raised = "MaskingError"
    /\ salt = Salt
    /\ ner_strategy = "hybrid" /\ llm_caller
    /\ MalformedPattern

\* C15: add_pattern with a malformed pattern raises and leaves the pattern
\* set as it was (the pattern registered under that name stays in force);
\* with a well-formed pattern it returns, the pattern is in the pattern set
\* under its name, and a later pattern-only mask call substitutes every
\* match of it; with strategy llm_only it raises and changes nothing.
PatternRegistration ==
    /\ []((Constructed /\ last_add.state = "done") =>
            LET p == last_add.pattern IN
            /\ "cls" \notin DOMAIN p => last_add.raised = "MaskingError"
            /\ ner_strategy = "llm_only" =>
                  (last_add.raised = "MaskingError" /\ patterns = <<>>)
            /\ ("cls" \in DOMAIN p /\ ner_strategy # "llm_only") =>
                  /\ last_add.raised = "none"
                  /\ \E i \in 1..Len(patterns) : patterns[i] = p
                  /\ \A i, j \in 1..Len(patterns) :
                        patterns[i].label = patterns[j].label => i = j
                  /\ (ner_strategy = "regex_only"
                      /\ pc \in {"loop", "returned"}) =>
                        \A i \in 1..Len(PatternEntities(p, text)) :
                            PatternEntities(p, text)[i] \in Range(entities))
    /\ [][(last_add' # last_add /\ last_add'.raised # "none") =>
            patterns' = patterns]_vars

\* a pattern-only engine has masked a text after a successful registration
\* of the label X and a failed registration for the label D: both the new
\* pattern and the pattern D was constructed with found entities
RegistrationWitness ==
    /\ ner_strategy = "regex_only"
    /\ pc = "returned"
    /\ last_add.state = "done"
    /\ last_add.raised = "MaskingError"
    /\ last_add.pattern.label = <<"D">>
    /\ \E i \in 1..Len(patterns) : patterns[i].label = <<"X">>
    /\ \E i \in 1..Len(entities) : entities[i].label = <<"X">>
    /\ \E i \in 1..Len(entities) :
          entities[i].label = <<"D">> /\ entities[i].text = <<"n">>

\* C17: the delegated extractor of an engine built from a configuration
\* applies the configuration's llm_confidence_threshold: under llm_only a
\* verified candidate is in the entity sequence exactly if its confidence
\* (0.5 when the reply omits it) is at least the configured value, and
\* under hybrid no candidate below the configured value is in it.
ConfiguredThresholdApplied ==
    (/\ pc \in {"loop", "returned"}
     /\ ner_strategy \in {"llm_only", "hybrid"} /\ llm_caller) =>
        \A k \in 1..Len(ReplyItems(reply)) :
            LET item == ReplyItems(reply)[k]
                c == Get(item, "confidence", default_confidence)
                e == Entity(item.text, item.label, item.start, item.end, c)
            IN Slice(text, item.start, item.end) = item.text =>
                  /\ c < llm_confidence_threshold => e \notin Range(entities)
                  /\ (ner_strategy = "llm_only"
                      /\ c >= llm_confidence_threshold) =>
                        e \in Range(entities)

\* C16: the last-result slot holds the entity list of whichever mask call
\* stored into it last: a store by a thread puts that thread's list there,
\* nothing but a store (or the in-place sort of the list stored there)
\* changes it, and get_last_entities returns it whoever asks; so a thread
\* whose own call has returned can be given the entities of the other
\* thread's call.
LastResultSlot ==
    /\ [](slot_owner # 0 => last_entities = t_entities[slot_owner])
    /\ [](\A i \in Threads :
            (t_pc[i] = "done" /\ t_seen[i] # t_entities[i]) =>
                \E j \in Threads \ {i} :
                    /\ t_pc[j] \notin {"start", "extracted"}
                    /\ Range(t_seen[i]) = Range(t_entities[j]))
    /\ [][\A i \in Threads :
            (t_pc[i] = "extracted" /\ t_pc'[i] = "stored") =>
                (last_entities' = t_entities[i] /\ slot_owner' = i)]_vars
    /\ [][last_entities' # last_entities =>
            \E i \in Threads :
                \/ t_pc[i] = "extracted" /\ t_pc'[i] = "stored"
                \/ /\ t_pc[i] = "stored" /\ t_pc'[i] = "sorted"
                   /\ slot_owner = i]_vars

\* thread 1 called get_last_entities after its mask call returned and got
\* the entities of thread 2's call on another text
InterleavingWitness ==
    /\ t_pc[1] = "done"
    /\ t_text[1] # t_text[2]
    /\ t_seen[1] = t_entities[2]
    /\ t_seen[1] # t_entities[1]
    /\ t_entities[1] = SortDescending(
                           RegexNER_extract_entities(patterns, t_text[1]))
    /\ t_entities[2] = SortDescending(
                           RegexNER_extract_entities(patterns, t_text[2]))

\* C18: the merge scans the candidates in ascending start order, stable for
\* equal starts, and an overlapping candidate replaces the accepted entity
\* only with a strictly greater confidence.  For two overlapping candidates
\* the result is exactly the one of greater confidence, whichever starts
\* first (A with 1.0 and B with 0.5 give [A]), and with equal confidence
\* the one scanned first; for any candidates the first entity of the result
\* is the first candidate scanned or has a strictly greater confidence.
MergeTieBreak ==
    pc = "merged" =>
        /\ (Len(cands) = 2 /\ Overlap(cands[1], cands[2])) =>
              LET a == cands[1]
                  b == cands[2]
              IN /\ a.confidence > b.confidence => merged = <<a>>
                 /\ b.confidence > a.confidence => merged = <<b>>
                 /\ a.confidence = b.confidence =>
                       merged = <<IF b.start < a.start THEN b ELSE a>>
        /\ cands # <<>> =>
              LET scanned_first ==
                    cands[CHOOSE i \in 1..Len(cands) :
                             \A j \in 1..Len(cands) :
                                 \/ cands[i].start < cands[j].start
                                 \/ (cands[i].start = cands[j].start /\ i <= j)]
              IN /\ merged # <<>>
                 /\ \/ merged[1] = scanned_first
                    \/ merged[1].confidence > scanned_first.confidence
        /\ \A i \in 1..Len(merged) : merged[i] \in Range(cands)

\* two overlapping candidates of equal confidence were merged, the second
\* of the input starting first
TieWitness ==
    /\ pc = "merged"
    /\ Len(cands) = 2
    /\ Overlap(cands[1], cands[2])
    /\ cands[1].confidence = cands[2].confidence
    /\ cands[2].start < cands[1].start
    /\ merged = <<cands[2]>>

\* C19 as stated: every candidate given to _merge_entities is in its output
\* or overlaps at least one entity of its output.
MergeCoverage ==
    pc = "merged" =>
        \A i \in 1..Len(cands) :
            \/ cands[i] \in Range(merged)
            \/ \E j \in 1..Len(merged) : Overlap(cands[i], merged[j])

\* candidates linked to the output by a chain of overlaps along which the
\* confidence does not decrease
RECURSIVE ChainCovered(_, _)
ChainCovered(covered, rest) ==
    LET more == {c \in rest :
                    \E d \in covered :
                        Overlap(c, d) /\ d.confidence >= c.confidence}
    IN IF more = {} THEN covered
       ELSE ChainCovered(covered \cup more, rest \ more)

\* C19 amended: every candidate is in the output of _merge_entities or is
\* linked to an entity of the output by a chain of pairwise overlapping
\* candidates of non-decreasing confidence (so it overlaps a candidate of
\* at least its own confidence), and with at most two candidates it
\* overlaps an entity of the output itself.
MergeChainCoverage ==
    pc = "merged" =>
        /\ Range(cands) \subseteq
              ChainCovered(Range(merged), Range(cands) \ Range(merged))
        /\ Len(cands) <= 2 =>
              \A i \in 1..Len(cands) :
                  \/ cands[i] \in Range(merged)
                  \/ \E j \in 1..Len(merged) : Overlap(cands[i], merged[j])

\* a chain of three candidates was merged and the first lies outside every
\* span of the output
UncoveredWitness ==
    /\ pc = "merged"
    /\ Len(cands) = 3
    /\ Overlap(cands[1], cands[2])
    /\ Overlap(cands[2], cands[3])
    /\ ~Overlap(cands[1], cands[3])
    /\ merged = <<cands[3]>>

\* C20: unmask replaces each occurrence of a key by the mapped value
\* character for character, whatever the value holds (backslashes, group
\* references), and a value it has inserted is not changed by the
\* replacement of a token processed later: the result is the text with
\* every key occurrence replaced once by its value.
VerbatimRestoration ==
    pc = "unmask_done" =>
        /\ restored.ok
        /\ restored.val = RestoreOnly(u_text, u_mapping)

====
